---- MODULE Spec2Model ----
(***************************************************************************)
(* Model of dapsd (src/src/bin/dapsd.rs): a tide server with two routes,   *)
(* POST /api/register/dir (register_dir) and /:project_name/*path          *)
(* (serve_page), sharing an Arc<RwLock<LanguageDirectory>>.                *)
(*                                                                         *)
(* Strings are sequences of symbols.  A symbol is one character ("/",      *)
(* ".") or an atom standing for a fixed run of ordinary characters ("srv", *)
(* "docs", "-evil"); the text of a string is the concatenation of its      *)
(* symbols.  A path value (std::path::PathBuf) is the string it holds:     *)
(* push and pop edit that string, starts_with and == compare the           *)
(* components std::path::Components reads from it: "/" for the root, "."   *)
(* for a leading current-directory marker, ".." and ordinary names.        *)
(*                                                                         *)
(* Option<T> is a set with at most one element; Result<T, E> is a record   *)
(* with the field ok.                                                      *)
(***************************************************************************)
EXTENDS Naturals, Sequences, FiniteSets

VARIABLES
    languages,   \* LanguageDirectory.languages of the shared state
    lock,        \* the RwLock around it: who holds a read guard, write held
    reader,      \* in-flight serve_page handlers, one per slot
    registrar,   \* in-flight register_dir handlers, one per slot
    header_display, \* how the build's HeaderValues::to_string prints a header
    registered,  \* history: the Project last acknowledged per (language, project_name)
    rs           \* one evaluation of Project::serve_path, step by step

vars == <<languages, lock, reader, registrar, registered, rs, header_display>>

(***************************************************************************)
(* Bounds                                                                  *)
(***************************************************************************)
\* longest requested path drawn from PathAlphabet
MaxPathLen == 4
\* longest base directory drawn from DirAlphabet
MaxDirLen == 2

Readers == {"r1", "r2"}
Registrars == {"w1"}

(***************************************************************************)
(* Strings                                                                 *)
(***************************************************************************)
None == {}
Some(x) == {x}
Unwrap(o) == CHOOSE x \in o : TRUE

Strings(alphabet, n) == UNION {[1..k -> alphabet] : k \in 0..n}

Last(s) == s[Len(s)]
Front(s) == SubSeq(s, 1, Len(s) - 1)

\* str::strip_suffix: Some(the rest) when s ends with suffix, else None
strip_suffix(s, suffix) ==
    IF Len(s) >= Len(suffix)
       /\ SubSeq(s, Len(s) - Len(suffix) + 1, Len(s)) = suffix
    THEN Some(SubSeq(s, 1, Len(s) - Len(suffix)))
    ELSE None

DocsSuffix == <<".", "docs">>

(***************************************************************************)
(* std::path                                                               *)
(***************************************************************************)
RootDir == <<"/">>
CurDir == <<".">>
ParentDir == <<".", ".">>

\* the runs of a string between its separators, empty runs included
RECURSIVE SplitSegs(_)
SplitSegs(s) ==
    IF \A i \in 1..Len(s) : s[i] # "/"
    THEN <<s>>
    ELSE LET i == CHOOSE k \in 1..Len(s) :
                      s[k] = "/" /\ \A j \in 1..(k - 1) : s[j] # "/"
         IN <<SubSeq(s, 1, i - 1)>> \o SplitSegs(SubSeq(s, i + 1, Len(s)))

RECURSIVE DropEmptyAndCur(_)
DropEmptyAndCur(segs) ==
    IF segs = <<>> THEN <<>>
    ELSE IF segs[1] = <<>> \/ segs[1] = CurDir
         THEN DropEmptyAndCur(Tail(segs))
         ELSE <<segs[1]>> \o DropEmptyAndCur(Tail(segs))

\* Path::new(s).iter(): the root if s starts with a separator, a leading "."
\* if s starts with "." followed by a separator or the end, then every
\* non-empty segment that is not "."
Components(s) ==
    LET segs == SplitSegs(s)
        head == IF Len(s) > 0 /\ s[1] = "/" THEN <<RootDir>>
                ELSE IF segs[1] = CurDir THEN <<CurDir>>
                ELSE <<>>
    IN head \o DropEmptyAndCur(segs)

has_physical_root(s) == Len(s) > 0 /\ s[1] = "/"

\* Components::include_cur_dir: a leading "." that stands alone or is
\* followed by a separator
include_cur_dir(s) ==
    /\ ~has_physical_root(s)
    /\ Len(s) > 0
    /\ s[1] = "."
    /\ (Len(s) = 1 \/ s[2] = "/")

\* Components::len_before_body: the root or the leading "."
len_before_body(s) ==
    IF has_physical_root(s) \/ include_cur_dir(s) THEN 1 ELSE 0

\* Components::parse_next_component_back, for a string with a body left: the
\* last segment of the body, and its length with the separator before it
parse_next_component_back(s) ==
    LET start == len_before_body(s)
        seps == {i \in (start + 1)..Len(s) : s[i] = "/"}
    IN IF seps = {}
       THEN [size |-> Len(s) - start, comp |-> SubSeq(s, start + 1, Len(s))]
       ELSE LET i == CHOOSE k \in seps : \A j \in seps : j <= k
            IN [size |-> Len(s) - i + 1, comp |-> SubSeq(s, i + 1, Len(s))]

\* Components::parse_single_component yields a component: not for an empty
\* segment, not for "."
is_component(seg) == seg # <<>> /\ seg # CurDir

\* Components::next_back: the last component, and the string left before it
RECURSIVE next_back(_)
next_back(s) ==
    IF Len(s) > len_before_body(s)
    THEN LET b == parse_next_component_back(s)
             left == SubSeq(s, 1, Len(s) - b.size)
         IN IF is_component(b.comp)
            THEN [comp |-> Some(b.comp), path |-> left, body |-> TRUE]
            ELSE next_back(left)
    ELSE IF has_physical_root(s)
         THEN [comp |-> Some(RootDir), path |-> Front(s), body |-> FALSE]
    ELSE IF include_cur_dir(s)
         THEN [comp |-> Some(CurDir), path |-> Front(s), body |-> FALSE]
    ELSE [comp |-> None, path |-> s, body |-> FALSE]

\* Components::trim_right: trailing segments that yield no component go
RECURSIVE trim_right(_)
trim_right(s) ==
    IF Len(s) > len_before_body(s)
    THEN LET b == parse_next_component_back(s)
         IN IF is_component(b.comp) THEN s
            ELSE trim_right(SubSeq(s, 1, Len(s) - b.size))
    ELSE s

\* Path::parent: what is left before the last component, none for the root
\* and for the empty path
parent(s) ==
    LET b == next_back(s)
    IN IF b.comp = None \/ b.comp = Some(RootDir) THEN None
       ELSE Some(IF b.body THEN trim_right(b.path) ELSE b.path)

\* a pop that removes nothing
pop_keeps(p) == p

\* PathBuf::pop: truncate to the parent; no parent (root, empty), no change
pop(p) ==
    IF parent(p) = None THEN p ELSE Unwrap(parent(p))

\* PathBuf::push of one component: an absolute component replaces the
\* string, another is appended after a separator unless the string is empty
\* or ends with one
push(p, c) ==
    IF has_physical_root(c) THEN c
    ELSE IF p # <<>> /\ Last(p) # "/" THEN p \o <<"/">> \o c
    ELSE p \o c

\* the containment check left out: every path passes
starts_with_unchecked(p, base) == TRUE

\* s starts with the string t
HasStringPrefix(s, t) == Len(t) <= Len(s) /\ SubSeq(s, 1, Len(t)) = t

\* the containment check done on the paths' text
starts_with_as_text(p, base) == HasStringPrefix(p, base)

\* Path::starts_with: base's components are the first components of p
starts_with(p, base) ==
    /\ Len(Components(base)) <= Len(Components(p))
    /\ \A i \in 1..Len(Components(base)) : Components(p)[i] = Components(base)[i]

\* the loop without its test for ".": a leading "." is pushed like a name
visit_pushes_cur_dir(file_path, p) ==
    IF p = ParentDir THEN pop(file_path) ELSE push(file_path, p)

\* one iteration of the loop of full_path_to
visit(file_path, p) ==
    IF p = CurDir THEN file_path
    ELSE IF p = ParentDir THEN pop(file_path)
    ELSE push(file_path, p)

RECURSIVE visit_all(_, _)
visit_all(file_path, comps) ==
    IF comps = <<>> THEN file_path
    ELSE visit_all(visit(file_path, comps[1]), Tail(comps))

\* Project::full_path_to
full_path_to(directory, path) == visit_all(directory, Components(path))

(***************************************************************************)
(* Values                                                                  *)
(***************************************************************************)
Ok(v) == [ok |-> TRUE, val |-> v]
Err(status, msg) == [ok |-> FALSE, status |-> status, msg |-> msg]

\* tide::Response: a status and, for a served file, the path it was read from
Response(status, body) == [status |-> status, body |-> body]

\* struct Project
Project(l, n, d) == [language |-> l, project_name |-> n, directory |-> d]

\* PathBuf as serde deserializes it from the JSON string: PathBuf::from
\* takes the string as it is
PathBufFrom(s) == s

EmptyMap == [k \in {} |-> {}]

\* the LanguageMap holding exactly the projects of S (one per key at most)
LanguageMapOf(S) ==
    [l \in {p.language : p \in S} |->
        [name |-> l,
         projects |-> [n \in {p.project_name : p \in {q \in S : q.language = l}} |->
                          CHOOSE p \in S : p.language = l /\ p.project_name = n]]]

(***************************************************************************)
(* Inputs                                                                  *)
(***************************************************************************)
Rust == <<"rust">>
Daps == <<"daps">>
Nope == <<"nope">>
Go == <<"go">>
SrvGo == <<"/", "srv", "/", "go">>
SrvDaps == <<"/", "srv", "/", "daps">>
SrvOther == <<"/", "srv", "/", "other">>
IndexHtml == <<"index", ".", "html">>
SecretTxt == <<".", ".", "/", "secret", ".", "txt">>
EtcPasswd3 == <<".", ".", "/", ".", ".", "/", ".", ".", "/", "etc", "/", "passwd">>

\* the host header of a serve request: absent, or its value
Hosts == {None, Some(Rust \o DocsSuffix), Some(Rust), Some(DocsSuffix)}
\* the two ways HeaderValues::to_string may print a header
HeaderDisplays == {"text", "list"}
ProjectNames == {Daps, Nope}
ServePaths == {IndexHtml, SecretTxt}

\* the body of a registration request: not decodable, or the three fields
Bodies ==
    {None,
     Some(Project(Rust, Daps, SrvDaps)),
     Some(Project(Rust, Daps, SrvOther)),
     Some(Project(Go, Daps, SrvGo)),
     Some(Project(<<>>, Daps, SrvDaps)),
     Some(Project(Rust, <<>>, SrvDaps))}

\* LanguageDirectory values serve_page is exercised on in SpecServe
SeedProjects == {Project(Rust, Daps, PathBufFrom(SrvDaps))}

\* outcomes of tide::Body::from_file
FileOutcomes == {"found", "missing", "denied"}

PathAlphabet == {"/", ".", "a"}
DirAlphabet == {"/", ".", "a"}

ResolverPaths ==
    Strings(PathAlphabet, MaxPathLen)
    \cup {IndexHtml, SecretTxt, EtcPasswd3,
          <<"/", "etc", "/", "passwd">>,
          <<"a", "/", ".", "/", "b">>, <<"a", "/", "b">>,
          <<"a", "/", ".", ".", "/", "a", "/", "file", ".", "txt">>,
          <<"a", "/", "file", ".", "txt">>,
          <<".", ".", "/", "docs", "-evil", "/", "x">>}

ResolverDirs ==
    Strings(DirAlphabet, MaxDirLen)
    \cup {SrvDaps, SrvDaps \o <<"/">>, <<"/", "docs">>, <<"/", "etc">>,
          <<"/", "etc", "/", "passwd">>, <<"etc">>}

(***************************************************************************)
(* LanguageName, LanguageDirectory, Language                               *)
(***************************************************************************)
\* HeaderValues::to_string, for a header sent once.  It is the Display of
\* the http-types crate, which is not part of this repository: it prints
\* either the value's text (rust.docs) or the list of the values, each
\* quoted (["rust.docs"]); which one is fixed by the build
to_string(host_name) ==
    IF header_display = "text" THEN host_name
    ELSE <<"[", "\"">> \o host_name \o <<"\"", "]">>

\* LanguageName::from_host_name
from_host_name(host_name_opt) ==
    IF host_name_opt = None
    THEN Err("InternalServerError", "no hostname specified")
    ELSE LET stripped == strip_suffix(to_string(Unwrap(host_name_opt)), DocsSuffix)
         IN IF stripped = None
            THEN Err("BadRequest", "improper domain name")
            ELSE Ok(Unwrap(stripped))

\* an unknown language reported as a server error instead of NotFound
language_wrong_status(language_map, language_name) ==
    IF language_name \in DOMAIN language_map
    THEN Ok(language_map[language_name])
    ELSE Err("InternalServerError", "language has no registered projects")

\* LanguageDirectory::language
language(language_map, language_name) ==
    IF language_name \in DOMAIN language_map
    THEN Ok(language_map[language_name])
    ELSE Err("NotFound", "language has no registered projects")

\* Language::project
project(lang, project_name) ==
    IF project_name \in DOMAIN lang.projects
    THEN Ok(lang.projects[project_name])
    ELSE Err("NotFound", "Project not found")

\* the two lookups of serve_page, the second only after the first succeeded
lookup(language_map, language_name, project_name) ==
    LET l == language(language_map, language_name)
    IN IF l.ok THEN project(l.val, project_name) ELSE l

(***************************************************************************)
(* Project::serve_path                                                     *)
(***************************************************************************)
\* lines 89-93: the computed path, and whether it is refused
serve_path_check(proj, path) ==
    LET file_path == full_path_to(proj.directory, path)
    IN [file_path |-> file_path,
        forbidden |-> ~starts_with(file_path, proj.directory)]

\* lines 95-102: the result for each outcome of Body::from_file(file_path)
from_file_result(file_path, outcome) ==
    IF outcome = "found" THEN Ok(Response("Ok", Some(file_path)))
    ELSE IF outcome = "missing" THEN Ok(Response("NotFound", None))
    ELSE Err("InternalServerError", "io error")

(***************************************************************************)
(* State                                                                   *)
(***************************************************************************)
IdleReader ==
    [pc |-> "idle", host |-> None, project_name |-> <<>>, path |-> <<>>,
     language_name |-> None, project |-> None, file_path |-> None,
     resp |-> None]

IdleRegistrar == [pc |-> "idle", body |-> None, resp |-> None]

IdleResolver ==
    [pc |-> "idle", directory |-> <<>>, path |-> <<>>, rest |-> <<>>,
     file_path |-> <<>>, opened |-> None, resp |-> None]

\* a mutex in place of the RwLock: a read waits for every other guard
read_available_exclusive == ~lock.writer /\ lock.readers = {}

\* RwLock::read is granted while no write guard is held
read_available == ~lock.writer

KeyOf(p) == <<p.language, p.project_name>>

\* tide::with_state(SharedLanguageDirectory::default()), no request yet
Init ==
    /\ header_display \in HeaderDisplays
    /\ languages = EmptyMap
    /\ lock = [readers |-> {}, writer |-> FALSE]
    /\ reader = [r \in Readers |-> IdleReader]
    /\ registrar = [w \in Registrars |-> IdleRegistrar]
    /\ registered = {}
    /\ rs = IdleResolver

(***************************************************************************)
(* register_dir                                                            *)
(***************************************************************************)
\* a POST /api/register/dir arrives; the handler awaits req.body_json()
StartRegister(w, body) ==
    /\ registrar[w].pc = "idle"
    /\ registrar' = [registrar EXCEPT ![w] =
                        [pc |-> "body", body |-> body, resp |-> None]]
    /\ UNCHANGED <<header_display, languages, lock, reader, registered, rs>>

\* a registration that takes the write guard of a lock that lets readers
\* in first: it waits until no read guard is held
register_dir_after_readers(w) ==
    /\ lock.readers = {}
    /\ registrar[w].pc = "body"
    /\ LET body == registrar[w].body
       IN IF body = None
          THEN /\ registrar' = [registrar EXCEPT ![w].pc = "done",
                                   ![w].resp = Some(Err("UnprocessableEntity", "body"))]
               /\ UNCHANGED registered
          ELSE LET b == Unwrap(body)
                   e == Project(b.language, b.project_name, PathBufFrom(b.directory))
               IN /\ registrar' = [registrar EXCEPT ![w].pc = "done",
                                      ![w].resp = Some(Ok(Response("Ok", Some(e))))]
                  /\ registered' = {p \in registered : KeyOf(p) # KeyOf(e)} \cup {e}
    /\ UNCHANGED <<header_display, languages, lock, reader, rs>>

\* lines 131-140: the body is decoded and the handler answers, or decoding
\* fails and `?` returns body_json's error (tide: 422); the shared state is
\* neither locked nor written
register_dir(w) ==
    /\ registrar[w].pc = "body"
    /\ LET body == registrar[w].body
       IN IF body = None
          THEN /\ registrar' = [registrar EXCEPT ![w].pc = "done",
                                   ![w].resp = Some(Err("UnprocessableEntity", "body"))]
               /\ UNCHANGED registered
          ELSE LET b == Unwrap(body)
                   e == Project(b.language, b.project_name, PathBufFrom(b.directory))
               IN /\ registrar' = [registrar EXCEPT ![w].pc = "done",
                                      ![w].resp = Some(Ok(Response("Ok", Some(e))))]
                  /\ registered' = {p \in registered : KeyOf(p) # KeyOf(e)} \cup {e}
    /\ UNCHANGED <<header_display, languages, lock, reader, rs>>

\* the response is delivered and the slot is free for the next request
FinishRegister(w) ==
    /\ registrar[w].pc = "done"
    /\ registrar' = [registrar EXCEPT ![w] = IdleRegistrar]
    /\ UNCHANGED <<header_display, languages, lock, reader, registered, rs>>

(***************************************************************************)
(* serve_page                                                              *)
(***************************************************************************)
\* lines 144-148: a request arrives, the language is taken from the host
\* header, the handler awaits state.read()
StartServe(r, host, project_name, path) ==
    /\ reader[r].pc = "idle"
    /\ LET language_name == from_host_name(host)
           req == [IdleReader EXCEPT !.host = host,
                      !.project_name = project_name, !.path = path]
       IN reader' = [reader EXCEPT ![r] =
              IF language_name.ok
              THEN [req EXCEPT !.pc = "read",
                       !.language_name = Some(language_name.val)]
              ELSE [req EXCEPT !.pc = "done", !.resp = Some(language_name)]]
    /\ UNCHANGED <<header_display, languages, lock, registrar, registered, rs>>

\* the guard dropped as soon as it is granted: the handler goes on unguarded
AcquireRead_drops_guard(r) ==
    /\ reader[r].pc = "read"
    /\ read_available
    /\ reader' = [reader EXCEPT ![r].pc = "locked"]
    /\ UNCHANGED <<header_display, languages, lock, registrar, registered, rs>>

\* line 148: the read guard is granted
AcquireRead(r) ==
    /\ reader[r].pc = "read"
    /\ read_available
    /\ lock' = [lock EXCEPT !.readers = @ \cup {r}]
    /\ reader' = [reader EXCEPT ![r].pc = "locked"]
    /\ UNCHANGED <<header_display, languages, registrar, registered, rs>>

\* a lookup through entry().or_default(): an unknown language is filed with
\* no projects before NotFound is answered
Lookup_files_language(r) ==
    /\ reader[r].pc = "locked"
    /\ LET l == Unwrap(reader[r].language_name)
       IN /\ languages' =
                [k \in DOMAIN languages \cup {l} |->
                    IF k \in DOMAIN languages THEN languages[k]
                    ELSE [name |-> k, projects |-> EmptyMap]]
          /\ reader' = [reader EXCEPT ![r].pc = "done",
                           ![r].resp = Some(Err("NotFound", "Project not found"))]
    /\ lock' = [lock EXCEPT !.readers = @ \ {r}]
    /\ UNCHANGED <<header_display, registrar, registered, rs>>

\* lines 149-151 and 89-93: the two lookups and the containment check; an
\* early return drops the guard, otherwise the handler awaits the file
Lookup(r) ==
    /\ reader[r].pc = "locked"
    /\ LET found == lookup(languages, Unwrap(reader[r].language_name),
                           reader[r].project_name)
       IN IF ~found.ok
          THEN /\ reader' = [reader EXCEPT ![r].pc = "done",
                                ![r].resp = Some(found)]
               /\ lock' = [lock EXCEPT !.readers = @ \ {r}]
          ELSE LET c == serve_path_check(found.val, reader[r].path)
               IN IF c.forbidden
                  THEN /\ reader' = [reader EXCEPT ![r].pc = "done",
                                        ![r].project = Some(found.val),
                                        ![r].file_path = Some(c.file_path),
                                        ![r].resp = Some(Ok(Response("Forbidden", None)))]
                       /\ lock' = [lock EXCEPT !.readers = @ \ {r}]
                  ELSE /\ reader' = [reader EXCEPT ![r].pc = "file",
                                        ![r].project = Some(found.val),
                                        ![r].file_path = Some(c.file_path)]
                       /\ UNCHANGED lock
    /\ UNCHANGED <<header_display, languages, registrar, registered, rs>>

\* lines 95-102: Body::from_file completes, serve_page returns and drops
\* the guard
FileRead(r, outcome) ==
    /\ reader[r].pc = "file"
    /\ reader' = [reader EXCEPT ![r].pc = "done",
                     ![r].resp = Some(from_file_result(Unwrap(reader[r].file_path), outcome))]
    /\ lock' = [lock EXCEPT !.readers = @ \ {r}]
    /\ UNCHANGED <<header_display, languages, registrar, registered, rs>>

\* the response is delivered and the slot is free for the next request
FinishServe(r) ==
    /\ reader[r].pc = "done"
    /\ reader' = [reader EXCEPT ![r] = IdleReader]
    /\ UNCHANGED <<header_display, languages, lock, registrar, registered, rs>>

(***************************************************************************)
(* The server                                                              *)
(***************************************************************************)
\* No handler writes the LanguageDirectory, so from Init no lookup succeeds
\* and no handler reaches Body::from_file: Next is every step the server
\* can take from Init.
Next ==
    \/ \E w \in Registrars, body \in Bodies : StartRegister(w, body)
    \/ \E w \in Registrars : register_dir(w)
    \/ \E w \in Registrars : FinishRegister(w)
    \/ \E r \in Readers, host \in Hosts, n \in ProjectNames, path \in ServePaths :
          StartServe(r, host, n, path)
    \/ \E r \in Readers : AcquireRead(r)
    \/ \E r \in Readers : Lookup(r)
    \/ \E r \in Readers : FinishServe(r)

Spec == Init /\ [][Next]_vars

\* the executor polls every handler that can run: a handler step that stays
\* possible is eventually taken; the arrival of requests is not forced
Fairness ==
    /\ \A w \in Registrars :
          WF_vars(register_dir(w)) /\ WF_vars(FinishRegister(w))
    /\ \A r \in Readers :
          WF_vars(AcquireRead(r)) /\ WF_vars(Lookup(r)) /\ WF_vars(FinishServe(r))

FairSpec == Spec /\ Fairness

\* serve_page on a LanguageDirectory that holds projects
InitServe ==
    /\ header_display \in HeaderDisplays
    /\ \E S \in SUBSET SeedProjects : languages = LanguageMapOf(S)
    /\ lock = [readers |-> {}, writer |-> FALSE]
    /\ reader = [r \in Readers |-> IdleReader]
    /\ registrar = [w \in Registrars |-> IdleRegistrar]
    /\ registered = {}
    /\ rs = IdleResolver

NextServe ==
    \/ Next
    \/ \E r \in Readers, outcome \in FileOutcomes : FileRead(r, outcome)

SpecServe == InitServe /\ [][NextServe]_vars

(***************************************************************************)
(* Project::serve_path on its own, one loop iteration at a time            *)
(***************************************************************************)
InitResolver ==
    /\ header_display \in HeaderDisplays
    /\ languages = EmptyMap
    /\ lock = [readers |-> {}, writer |-> FALSE]
    /\ reader = [r \in Readers |-> IdleReader]
    /\ registrar = [w \in Registrars |-> IdleRegistrar]
    /\ registered = {}
    /\ \E d \in ResolverDirs, path \in ResolverPaths :
          rs = [IdleResolver EXCEPT !.pc = "loop",
                   !.directory = PathBufFrom(d), !.path = path,
                   !.rest = Components(path), !.file_path = PathBufFrom(d)]

\* lines 108-116: the next component of the requested path
ResolverVisit ==
    /\ rs.pc = "loop"
    /\ rs.rest # <<>>
    /\ rs' = [rs EXCEPT !.file_path = visit(rs.file_path, rs.rest[1]),
                 !.rest = Tail(rs.rest)]
    /\ UNCHANGED <<header_display, languages, lock, reader, registrar, registered>>

\* lines 90-94: the containment check on the finished path
ResolverCheck ==
    /\ rs.pc = "loop"
    /\ rs.rest = <<>>
    /\ rs' = IF ~starts_with(rs.file_path, rs.directory)
             THEN [rs EXCEPT !.pc = "done",
                      !.resp = Some(Ok(Response("Forbidden", None)))]
             ELSE [rs EXCEPT !.pc = "open", !.opened = Some(rs.file_path)]
    /\ UNCHANGED <<header_display, languages, lock, reader, registrar, registered>>

\* lines 95-102: Body::from_file completes
ResolverRead(outcome) ==
    /\ rs.pc = "open"
    /\ rs' = [rs EXCEPT !.pc = "done",
                 !.resp = Some(from_file_result(Unwrap(rs.opened), outcome))]
    /\ UNCHANGED <<header_display, languages, lock, reader, registrar, registered>>

NextResolver ==
    \/ ResolverVisit
    \/ ResolverCheck
    \/ \E outcome \in FileOutcomes : ResolverRead(outcome)

SpecResolver == InitResolver /\ [][NextResolver]_vars

(***************************************************************************)
(* Properties                                                              *)
(***************************************************************************)
\* d is a component-wise prefix of p: the components of p are those of d
\* followed by further components
IsDescendant(p, d) ==
    \E k \in 0..Len(Components(p)) : SubSeq(Components(p), 1, k) = Components(d)

\* PathBuf's ==: the same components
SamePath(p, q) == Components(p) = Components(q)

StatusOf(res) == IF res.ok THEN res.val.status ELSE res.status

Forbidden == Ok(Response("Forbidden", None))

HasEntry(language_map, l, n) ==
    /\ l \in DOMAIN language_map
    /\ n \in DOMAIN language_map[l].projects

\* the step in which the response of reader r's request is produced
AnswerStep(r) == reader[r].pc # "done" /\ reader'[r].pc = "done"

\* a host value that is absent or whose text does not end with ".docs"
BadHost(host) == host = None \/ strip_suffix(Unwrap(host), DocsSuffix) = None

\* the request reader r answers in this step is addressed to entry e
AddressedTo(r, e) ==
    /\ reader'[r].host = Some(e.language \o DocsSuffix)
    /\ reader'[r].project_name = e.project_name

\* the step of registrar w that acknowledges a registration
AckStep(w) ==
    /\ registrar[w].pc = "body"
    /\ registrar'[w].pc = "done"
    /\ Unwrap(registrar'[w].resp).ok

\* a registration the spec accepts: both names non-empty
ValidEntry(e) == e.language # <<>> /\ e.project_name # <<>>

ReaderKey(r) == <<Unwrap(reader[r].language_name), reader[r].project_name>>

\* a requested path of ordinary segments only: not absolute, no empty
\* segment, no "." and no ".."
OrdinaryPath(path) ==
    /\ path # <<>>
    /\ \A i \in 1..Len(SplitSegs(path)) :
          SplitSegs(path)[i] \notin {<<>>, CurDir, ParentDir}

\* C1: whatever the base directory and the requested path, serve_path either
\* answers Forbidden without opening a file, or opens a path that has the
\* base directory as a component-wise prefix.
C1_StaysInsideDirectory ==
    /\ rs.opened # None => IsDescendant(Unwrap(rs.opened), rs.directory)
    /\ rs.pc = "done" =>
          \/ rs.opened # None
          \/ rs.opened = None /\ rs.resp = Some(Forbidden)

\* C1 witness: a request with ".." segments was resolved and its file served
C1_Witness ==
    /\ rs.pc = "done"
    /\ ParentDir \in {Components(rs.path)[i] : i \in 1..Len(Components(rs.path))}
    /\ rs.directory = PathBufFrom(SrvDaps)
    /\ rs.opened # None
    /\ StatusOf(Unwrap(rs.resp)) = "Ok"

\* C2: once a registration is acknowledged, a lookup of its (language,
\* project) finds the entry it named.
C2_RegisteredIsFound ==
    \A e \in registered :
       ValidEntry(e) => lookup(languages, e.language, e.project_name) = Ok(e)

\* the entry a registration acknowledged in this step names
Acked(w) == Unwrap(Unwrap(registrar'[w].resp).val.body)

\* C3: when a registration E2 is acknowledged for a key that had an
\* acknowledged registration E1 with another directory, the lookup of the
\* key returns exactly E2.
C3_OverwriteReturnsLatest ==
    [][\A w \in Registrars :
          (/\ AckStep(w)
           /\ ValidEntry(Acked(w))
           /\ \E e1 \in registered : KeyOf(e1) = KeyOf(Acked(w)) /\ e1 # Acked(w))
          => lookup(languages', Acked(w).language, Acked(w).project_name)
                = Ok(Acked(w))]_vars

\* C4: a request of ordinary segments, addressed by host and project name
\* to a registered (language, project), resolves to the registered directory
\* followed by the segments.
C4_ResolvesUnderDirectory ==
    [][\A r \in Readers : \A e \in registered :
          (/\ AnswerStep(r)
           /\ ValidEntry(e)
           /\ AddressedTo(r, e)
           /\ OrdinaryPath(reader'[r].path))
          => /\ reader'[r].file_path # None
             /\ Components(Unwrap(reader'[r].file_path))
                   = Components(e.directory) \o SplitSegs(reader'[r].path)]_vars

\* C5: a request addressed to a registered (language, project) whose
\* resolved path escapes the registered directory is answered Forbidden.
C5_EscapeIsForbidden ==
    [][\A r \in Readers : \A e \in registered :
          (/\ AnswerStep(r)
           /\ ValidEntry(e)
           /\ AddressedTo(r, e)
           /\ ~IsDescendant(full_path_to(e.directory, reader'[r].path), e.directory))
          => reader'[r].resp = Some(Forbidden)]_vars

\* C6: resolving ../../../etc/passwd is refused whatever the base directory.
C6_EtcPasswdForbidden ==
    (rs.path = EtcPasswd3 /\ rs.pc \in {"open", "done"})
    => rs.opened = None /\ rs.resp = Some(Forbidden)

\* C7: a request without a host, or with a host lacking the .docs suffix,
\* is answered with the client addressing error, and nothing was looked up
\* or resolved for it.
C7_BadAddressing ==
    \A r \in Readers :
       (/\ reader[r].pc = "done"
        /\ \/ reader[r].host = None
           \/ strip_suffix(Unwrap(reader[r].host), DocsSuffix) = None)
       => /\ reader[r].resp = Some(Err("BadRequest", "improper domain name"))
          /\ reader[r].project = None
          /\ reader[r].file_path = None

C9_EmptyNamesRejected ==
    \A w \in Registrars :
       (/\ registrar[w].pc = "done"
        /\ registrar[w].body # None
        /\ \/ Unwrap(registrar[w].body).language = <<>>
           \/ Unwrap(registrar[w].body).project_name = <<>>)
       => ~Unwrap(registrar[w].resp).ok

\* C10: a lookup waiting for read access is never held back, whichever
\* guards other lookups hold and whatever registration is in flight; and
\* whatever a lookup finds is one complete entry, filed in the registry
\* under its own language and project name.
C10_ReadersShareCompleteEntries ==
    /\ (\E r \in Readers : reader[r].pc = "read") => read_available
    /\ \A l \in DOMAIN languages :
          /\ languages[l].name = l
          /\ DOMAIN languages[l].projects # {}
          /\ \A n \in DOMAIN languages[l].projects :
                KeyOf(languages[l].projects[n]) = <<l, n>>
    /\ \A r \in Readers :
          reader[r].project # None
          => /\ KeyOf(Unwrap(reader[r].project)) = ReaderKey(r)
             /\ lookup(languages, ReaderKey(r)[1], ReaderKey(r)[2])
                   = Ok(Unwrap(reader[r].project))

\* C10 witness: one lookup holds its read guard, another asks for read
\* access, and a registration for a different key is in flight
C10_Witness ==
    \E r1, r2 \in Readers : \E w \in Registrars :
       /\ r1 # r2
       /\ reader[r1].pc = "locked"
       /\ reader[r2].pc = "read"
       /\ registrar[w].pc = "body"
       /\ registrar[w].body # None
       /\ <<Unwrap(registrar[w].body).language, Unwrap(registrar[w].body).project_name>>
             \notin {ReaderKey(r1), ReaderKey(r2)}

\* C11: a registration in flight is not starved by read load: under fair
\* scheduling it completes, whatever read guards serve requests hold and
\* keep taking.
C11_RegisterCompletes ==
    \A w \in Registrars : (registrar[w].pc = "body") ~> (registrar[w].pc = "done")

\* C11 witness: a registration was acknowledged while every serve request
\* slot held a read guard
C11_Witness ==
    \E w \in Registrars :
       /\ registrar[w].pc = "done"
       /\ Unwrap(registrar[w].resp).ok
       /\ lock.readers = Readers

\* the positions of a requested path where a segment starts: its beginning
\* unless it is absolute, and right after each separator
SegStarts(path) ==
    {i \in 0..Len(path) :
        \/ i = 0 /\ (path = <<>> \/ path[1] # "/")
        \/ i > 0 /\ path[i] = "/"}

InsertAt(path, i, t) == SubSeq(path, 1, i) \o t \o SubSeq(path, i + 1, Len(path))

\* path with a "." segment added at its end
WithTrailingDot(path) == IF path = <<>> THEN CurDir ELSE path \o <<"/", ".">>

\* what serve_path computes for a base directory and a requested path
Resolve(directory, path) == serve_path_check(Project(<<>>, <<>>, directory), path)

\* the same path, as PathBuf's == has it, and the same verdict
SameResult(a, b) == SamePath(a.file_path, b.file_path) /\ a.forbidden = b.forbidden

PathADotB == <<"a", "/", ".", "/", "b">>
PathAB == <<"a", "/", "b">>
PathAUpAFile == <<"a", "/", ".", ".", "/", "a", "/", "file", ".", "txt">>
PathAFile == <<"a", "/", "file", ".", "txt">>

\* C12: a "." segment added anywhere in the requested path (and so one
\* removed) changes neither the resolved path nor the verdict; in particular
\* a/./b resolves as a/b.
C12_CurDirIsNoOp ==
    /\ SameResult(Resolve(rs.directory, PathADotB), Resolve(rs.directory, PathAB))
    /\ \A i \in SegStarts(rs.path) :
          SameResult(Resolve(rs.directory, InsertAt(rs.path, i, <<".", "/">>)),
                     Resolve(rs.directory, rs.path))
    /\ SameResult(Resolve(rs.directory, WithTrailingDot(rs.path)),
                  Resolve(rs.directory, rs.path))
    /\ rs.pc \in {"open", "done"} =>
          /\ rs.file_path = Resolve(rs.directory, rs.path).file_path
          /\ \A i \in SegStarts(rs.path) :
                SamePath(rs.file_path,
                         full_path_to(rs.directory,
                                      InsertAt(rs.path, i, <<".", "/">>)))

\* C12 witness: a/./b was resolved under /srv/daps to /srv/daps/a/b
C12_Witness ==
    /\ rs.pc = "done"
    /\ rs.path = PathADotB
    /\ rs.directory = PathBufFrom(SrvDaps)
    /\ rs.opened = Some(SrvDaps \o <<"/", "a", "/", "b">>)

\* C13: an ordinary segment immediately followed by ".." cancels out,
\* wherever in the requested path the pair stands; in particular
\* a/../a/file.txt resolves as a/file.txt.
C13_SegmentThenParentCancels ==
    /\ SameResult(Resolve(rs.directory, PathAUpAFile), Resolve(rs.directory, PathAFile))
    /\ \A i \in SegStarts(rs.path) :
          SameResult(Resolve(rs.directory,
                             InsertAt(rs.path, i, <<"a", "/", ".", ".", "/">>)),
                     Resolve(rs.directory, rs.path))
    /\ rs.pc \in {"open", "done"} =>
          \A i \in SegStarts(rs.path) :
             SamePath(rs.file_path,
                      full_path_to(rs.directory,
                                   InsertAt(rs.path, i, <<"a", "/", ".", ".", "/">>)))

\* C13 witness: a/../a/file.txt was resolved under /srv/daps to
\* /srv/daps/a/file.txt
C13_Witness ==
    /\ rs.pc = "done"
    /\ rs.path = PathAUpAFile
    /\ rs.directory = PathBufFrom(SrvDaps)
    /\ rs.opened = Some(SrvDaps \o <<"/", "a", "/", "file", ".", "txt">>)

\* C14: the language name taken from a request's host is never empty.
C14_LanguageNameNonEmpty ==
    \A r \in Readers :
       reader[r].language_name # None => Unwrap(reader[r].language_name) # <<>>

\* C16: while the segments of a relative requested path are processed, the
\* accumulator keeps every component of the base directory.
C16_NeverBelowBase ==
    (rs.pc = "loop" /\ (rs.path = <<>> \/ rs.path[1] # "/"))
    => IsDescendant(rs.file_path, rs.directory)

DocsDir == <<"/", "docs">>
PathDocsEvil == <<".", ".", "/", "docs", "-evil", "/", "x">>

\* C17: a resolved path whose text merely begins with the text of the base
\* directory, without having the base's components as its first components,
\* is answered Forbidden and not opened; so is ../docs-evil/x under /docs.
C17_ComponentWisePrefix ==
    /\ Resolve(PathBufFrom(DocsDir), PathDocsEvil).forbidden
    /\ (/\ rs.pc \in {"open", "done"}
        /\ HasStringPrefix(rs.file_path, rs.directory)
        /\ ~IsDescendant(rs.file_path, rs.directory))
       => rs.opened = None /\ rs.resp = Some(Forbidden)

\* C17 witness: ../docs-evil/x under /docs resolved to /docs-evil/x, whose
\* text begins with /docs, and was refused
C17_Witness ==
    /\ rs.pc = "done"
    /\ rs.directory = PathBufFrom(DocsDir)
    /\ rs.path = PathDocsEvil
    /\ rs.file_path = <<"/", "docs", "-evil", "/", "x">>
    /\ HasStringPrefix(rs.file_path, rs.directory)
    /\ rs.resp = Some(Forbidden)

\* C15: when a registration is acknowledged for a project name that another
\* language has already registered, both entries are in the registry, each
\* under its own language with its own directory.
C15_SameNameUnderTwoLanguages ==
    [][\A w \in Registrars : \A e1 \in registered :
          (/\ AckStep(w)
           /\ ValidEntry(Acked(w))
           /\ ValidEntry(e1)
           /\ e1.project_name = Acked(w).project_name
           /\ e1.language # Acked(w).language)
          => /\ lookup(languages', e1.language, e1.project_name) = Ok(e1)
             /\ lookup(languages', Acked(w).language, Acked(w).project_name)
                   = Ok(Acked(w))]_vars

\* C18: the checks of a serve request come in the order addressing, registry
\* lookup, containment: only a request whose host names a language gets to
\* the registry; a request with a bad host is answered with the client
\* addressing error and nothing is looked up or resolved; a request whose host
\* names a language with no entry for (language, project) is answered with
\* the NotFound error and nothing is resolved, ".." in its path or not;
\* Forbidden is answered only for a registered entry.
C18_AddressingLookupContainment ==
    \A r \in Readers :
       /\ (r \in lock.readers \/ reader[r].pc \in {"read", "locked", "file"})
          => ~BadHost(reader[r].host) /\ reader[r].language_name # None
       /\ (reader[r].pc = "done" /\ BadHost(reader[r].host))
          => reader[r].language_name = None
       /\ (reader[r].pc = "done" /\ reader[r].language_name = None)
          => /\ ~Unwrap(reader[r].resp).ok
             /\ Unwrap(reader[r].resp).status = "BadRequest"
             /\ reader[r].project = None
             /\ reader[r].file_path = None
       /\ (/\ reader[r].pc = "done"
           /\ reader[r].language_name # None
           /\ ~HasEntry(languages, ReaderKey(r)[1], ReaderKey(r)[2]))
          => /\ ~Unwrap(reader[r].resp).ok
             /\ Unwrap(reader[r].resp).status = "NotFound"
             /\ reader[r].file_path = None
       /\ (reader[r].pc = "done" /\ reader[r].resp = Some(Forbidden))
          => /\ reader[r].language_name # None
             /\ HasEntry(languages, ReaderKey(r)[1], ReaderKey(r)[2])

\* C19: no step of a serve request changes the registry; the registry
\* changes only in a step that acknowledges a registration; and no entry is
\* ever removed.
C19_ServeLeavesRegistry ==
    [][/\ (\E r \in Readers : reader'[r] # reader[r]) => languages' = languages
       /\ languages' # languages => \E w \in Registrars : AckStep(w)
       /\ \A l \in DOMAIN languages :
             /\ l \in DOMAIN languages'
             /\ DOMAIN languages[l].projects \subseteq DOMAIN languages'[l].projects]_vars

\* C19 witness: requests were answered with a served file and with NotFound,
\* and the registry holds what it held
C19_Witness ==
    \E r1, r2 \in Readers :
       /\ reader[r1].pc = "done"
       /\ StatusOf(Unwrap(reader[r1].resp)) = "Ok"
       /\ reader[r2].pc = "done"
       /\ StatusOf(Unwrap(reader[r2].resp)) = "NotFound"
       /\ languages = LanguageMapOf(SeedProjects)

\* C20: a serve request holds its read guard from the moment it is granted
\* until its response is produced, the file read included; no write guard is
\* held meanwhile; and the directory it reads and answers from is the one
\* registered for its (language, project).
C20_GuardHeldUntilResponse ==
    /\ \A r \in Readers : r \in lock.readers <=> reader[r].pc \in {"locked", "file"}
    /\ lock.writer => lock.readers = {}
    /\ \A r \in Readers :
          (\/ reader[r].pc = "file"
           \/ reader[r].pc = "done" /\ reader[r].file_path # None)
          => /\ HasEntry(languages, ReaderKey(r)[1], ReaderKey(r)[2])
             /\ languages[ReaderKey(r)[1]].projects[ReaderKey(r)[2]]
                   = Unwrap(reader[r].project)
             /\ Unwrap(reader[r].file_path)
                   = full_path_to(Unwrap(reader[r].project).directory, reader[r].path)
             /\ (reader[r].pc = "done" /\ StatusOf(Unwrap(reader[r].resp)) = "Ok")
                => /\ Unwrap(reader[r].resp).val.body = reader[r].file_path
                   /\ IsDescendant(Unwrap(reader[r].file_path),
                                   Unwrap(reader[r].project).directory)

\* C20 witness: two requests await their files, both holding a read guard
C20_Witness ==
    \E r1, r2 \in Readers :
       /\ r1 # r2
       /\ reader[r1].pc = "file"
       /\ reader[r2].pc = "file"
       /\ {r1, r2} \subseteq lock.readers

====
